---------------------------- MODULE Spec2Model ----------------------------
(***************************************************************************)
(* Conversation stores of the pykit chat backend.                          *)
(*                                                                         *)
(* Three implementations of the chatkit Store interface live in the        *)
(* repository:                                                             *)
(*   MemoryStore     src/simple_app.py:24-95   (dicts and lists)           *)
(*   SupabaseStore   src/chatkit_supabase_store.py:16-282 (PostgREST)      *)
(*   _PostgresStore  src/app.py:59-392         (asyncpg + DDL)             *)
(* A behaviour is a sequence of calls on one store object; every call       *)
(* records what its caller gets back in `ret`.  Each store has one         *)
(* specification per family of operations:                                 *)
(*   SpecSupabaseItems, SpecSupabaseThreads, SpecSupabaseDelete,           *)
(*   SpecSupabaseLoadItem, SpecMemoryItems, SpecMemoryThreads,             *)
(*   SpecPostgres.                                                         *)
(* SpecAction is the widget action handler of src/pp_server.py run by      *)
(* several requests over one SupabaseStore database; SpecAnalysis is the   *)
(* value analysis of src/parleyapp_tools.py and src/pp_tools.py.           *)
(* A request to the database can fail (`ok` is FALSE): SupabaseStore       *)
(* catches the exception as its handlers do, _PostgresStore lets it        *)
(* propagate.  The thread status and the item type tag are payload that    *)
(* no operation reads and are not modelled.                                *)
(*                                                                         *)
(* Values.  Ids and timestamps are naturals (their order is the order of   *)
(* the strings / datetimes they stand for); NULL is 0 for id columns and   *)
(* the string "None" for text columns.  A Python string handed around as   *)
(* a cursor is a record [kind, v]: kind "id" for an id string, "ts" for    *)
(* an ISO-8601 timestamp string (datetime.isoformat), "none" for None.     *)
(***************************************************************************)
EXTENDS Naturals, Integers, Sequences, FiniteSets, TLC

VARIABLES
    threads,              \* MemoryStore.threads: dict in insertion order
    thread_items,         \* MemoryStore.thread_items: thread id -> list
    attachments,          \* MemoryStore.attachments: dict keyed by id
    chatkit_threads,      \* table chatkit_threads (rows)
    chatkit_thread_items, \* table chatkit_thread_items (rows)
    chatkit_attachments,  \* table chatkit_attachments (rows)
    ret,                  \* what the last call returned to its caller
    clock,                \* what datetime.now() returns
    handler,              \* ProfessorLockChatKitServer.action: one per request
    insertions            \* history: the rows of chatkit_thread_items in
                          \* the order the database inserted them

vars == <<threads, thread_items, attachments, chatkit_threads,
          chatkit_thread_items, chatkit_attachments, ret, clock, handler, insertions>>

memvars == <<threads, thread_items, attachments>>
dbvars  == <<chatkit_threads, chatkit_thread_items, chatkit_attachments>>
appvars == <<clock, handler, insertions>>

---------------------------------------------------------------------------
(* Bounds of the model *)

MaxThreads == 2
MaxItems == 2
MaxAtts == 1
MaxTime == 2
MaxLimit == 2
MaxRows == 3
MaxRequests == 2
MaxLegs == 2

ThreadIds == 1..MaxThreads
ItemIds == 1..MaxItems
AttIds == 1..MaxAtts
Times == 1..MaxTime
Limits == 1..MaxLimit
Orders == {"asc", "desc"}
Users == {"u1", "u2"}
Titles == {"None", "A"}
Payloads == {"a", "b"}

None == "None"
NULL == 0
EmptyMetadata == "{}"

\* context.get("user_id"): a user id, or None when the context has none
Contexts == Users \cup {None}

---------------------------------------------------------------------------
(* Python values *)

\* ThreadMetadata(id, title, created_at, metadata)
ThreadMetadata(id, title, created_at, metadata) ==
    [id |-> id, title |-> title, created_at |-> created_at, metadata |-> metadata]

\* the ThreadMetadata objects a caller can pass to save_thread
ThreadObjects ==
    {ThreadMetadata(i, tt, c, EmptyMetadata) : i \in ThreadIds, tt \in Titles, c \in Times}

\* a ThreadItem: id, created_at and the variant payload
ThreadItem(id, created_at, content) ==
    [id |-> id, created_at |-> created_at, content |-> content]

ItemObjects ==
    {ThreadItem(i, c, p) : i \in ItemIds, c \in Times, p \in Payloads}

\* no item: the value of a handler's item variable before it is assigned
NoItem == ThreadItem(NULL, NULL, None)

\* the requests handled at the same time
Requests == 1..MaxRequests

\* a handler that is not running
Idle ==
    [pc |-> "idle", type |-> None, thread_id |-> NULL, payload |-> None,
     widget_item |-> NoItem, hidden |-> NoItem]

\* an Attachment: id, optional thread_id and the payload
Attachment(id, thread_id, content) ==
    [id |-> id, thread_id |-> thread_id, content |-> content]

AttachmentObjects ==
    {Attachment(i, t, p) : i \in AttIds, t \in ThreadIds \cup {NULL}, p \in Payloads}

\* strings used as cursors
NoCursor == [kind |-> "none", v |-> 0]
IdStr(i) == [kind |-> "id", v |-> i]
isoformat(t) == [kind |-> "ts", v |-> t]
fromisoformat(s) == s.v

\* Page(data, has_more, next_cursor / after)
Page(data, has_more, cursor) ==
    [data |-> data, has_more |-> has_more, next_cursor |-> cursor]

EmptyPage == Page(<<>>, FALSE, NoCursor)

\* the first n elements of a list: s[:n]
Take(s, n) == IF Len(s) <= n THEN s ELSE SubSeq(s, 1, n)

\* the set of elements of a list
Range(s) == {s[k] : k \in 1..Len(s)}

\* all orderings of a finite set as sequences
Perms(S) ==
    {f \in [1..Cardinality(S) -> S] : \A a, b \in 1..Cardinality(S) : a # b => f[a] # f[b]}

---------------------------------------------------------------------------
(* Init: every store is empty after construction *)

Init ==
    /\ threads = <<>>
    /\ thread_items = [t \in ThreadIds |-> <<>>]
    /\ attachments = {}
    /\ chatkit_threads = {}
    /\ chatkit_thread_items = {}
    /\ chatkit_attachments = {}
    /\ ret = [op |-> "init"]
    /\ clock = 1
    /\ handler = [r \in Requests |-> Idle]
    /\ insertions = <<>>

---------------------------------------------------------------------------
(* Table primitives of the database behind SupabaseStore and _PostgresStore *)

\* the rows of a table with a given id (at most one: id is the key)
RowsById(table, id) == {r \in table : r.id = id}

HasId(table, id) == RowsById(table, id) # {}

\* upsert(row): insert, or replace the whole row with the same id
Upsert(table, row) == {r \in table : r.id # row.id} \cup {row}

\* delete().eq(column = id)
DeleteById(table, id) == {r \in table : r.id # id}
DeleteByThread(table, thread_id) == {r \in table : r.thread_id # thread_id}

\* created_at > after.  The column holds ISO timestamps; an `after` that is
\* not a timestamp string (an id such as "msg_ab12") matches no row: on a
\* timestamp column the request is rejected and the handler's except branch
\* returns the empty page, on a text column every "2..." sorts before the
\* letter an id starts with.
GtCreatedAt(created_at, after) ==
    /\ after.kind = "ts"
    /\ created_at.kind = "ts"
    /\ created_at.v > after.v

\* the results order(created_at, desc) can produce: sorted on created_at,
\* rows with equal created_at in any order
IsOrdered(seq, order) ==
    \A a, b \in 1..Len(seq) :
        a < b => IF order = "asc"
                 THEN fromisoformat(seq[a].created_at) <= fromisoformat(seq[b].created_at)
                 ELSE fromisoformat(seq[a].created_at) >= fromisoformat(seq[b].created_at)

OrderBy(rows, order) == {seq \in Perms(rows) : IsOrdered(seq, order)}

\* the cursors a caller of a list operation can hold: none, the one the
\* last page carried, or a timestamp string
LastCursor ==
    IF ret.op \in {"load_thread_items", "load_threads"}
    THEN {ret.page.next_cursor} ELSE {}

AfterChoices == {NoCursor} \cup LastCursor \cup {isoformat(t) : t \in Times}

\* ret of a list operation.  chain: this page continues a run that began
\* without a cursor and re-submitted each returned cursor with the same
\* arguments; acc: the ids returned so far in that run
Follows(op, key, after, limit, order) ==
    /\ ret.op = op
    /\ ret.chain
    /\ ret.key = key
    /\ ret.limit = limit
    /\ ret.order = order
    /\ ret.page.next_cursor # NoCursor
    /\ after = ret.page.next_cursor

ListRet(op, key, after, limit, order, failed, raised, page) ==
    LET follows == Follows(op, key, after, limit, order)
        ids == [k \in 1..Len(page.data) |-> page.data[k].id]
    IN  [op |-> op, key |-> key, after |-> after, limit |-> limit,
         order |-> order, failed |-> failed, raised |-> raised, page |-> page,
         chain |-> (after = NoCursor \/ follows),
         clean |-> (~failed /\ (follows => ret.clean)),
         prev |-> IF follows THEN ret.acc ELSE <<>>,
         acc |-> IF follows THEN ret.acc \o ids ELSE ids]

---------------------------------------------------------------------------
(* SupabaseStore, src/chatkit_supabase_store.py *)

\* item.model_dump(mode="json"): datetimes become ISO strings
model_dump(item) ==
    [id |-> item.id, created_at |-> isoformat(item.created_at), content |-> item.content]

\* load_thread, lines 47-74
Supabase_load_thread(thread_id) ==
    \E ok \in BOOLEAN, now \in Times :
        LET rows == RowsById(chatkit_threads, thread_id)
            found == ok /\ rows # {}
            result == IF found
                      THEN LET r == CHOOSE r \in rows : TRUE
                           IN ThreadMetadata(r.id, r.title, fromisoformat(r.created_at), r.metadata)
                      ELSE ThreadMetadata(thread_id, None, now, EmptyMetadata)
        IN  /\ ret' = [op |-> "load_thread", thread_id |-> thread_id,
                       existed |-> (rows # {}), failed |-> ~ok, raised |-> None,
                       result |-> result]
            /\ UNCHANGED <<memvars, dbvars>>

\* save_thread, lines 76-90
Supabase_save_thread(thread, user_id) ==
    \E ok \in BOOLEAN :
        LET thread_dict == [id |-> thread.id, title |-> thread.title,
                            created_at |-> isoformat(thread.created_at),
                            metadata |-> thread.metadata, profile_id |-> user_id]
        IN  /\ chatkit_threads' = IF ok THEN Upsert(chatkit_threads, thread_dict)
                                  ELSE chatkit_threads
            /\ ret' = [op |-> "save_thread", thread |-> thread, user_id |-> user_id,
                       failed |-> ~ok, raised |-> None]
            /\ UNCHANGED <<memvars, chatkit_thread_items, chatkit_attachments>>

\* load_thread_items, lines 92-139
Supabase_load_thread_items(thread_id, after, limit, order) ==
    \E ok \in BOOLEAN :
        LET rows == {r \in chatkit_thread_items :
                        /\ r.thread_id = thread_id
                        /\ (after # NoCursor => GtCreatedAt(r.created_at, after))}
        IN  \E sorted \in OrderBy(rows, order) :
                LET data == Take(sorted, limit)
                    items == [k \in 1..Len(data) |-> data[k].item_data]
                    has_more == Len(items) >= limit
                    page == IF ok
                            THEN Page(items, has_more,
                                      IF items # <<>> /\ has_more
                                      THEN IdStr(items[Len(items)].id) ELSE NoCursor)
                            ELSE EmptyPage
                IN  /\ ret' = ListRet("load_thread_items", thread_id, after, limit,
                                      order, ~ok, None, page)
                    /\ UNCHANGED <<memvars, dbvars>>

\* save_attachment, lines 141-154
Supabase_save_attachment(attachment, user_id) ==
    \E ok \in BOOLEAN, now \in Times :
        LET attachment_dict == [id |-> attachment.id, thread_id |-> attachment.thread_id,
                                attachment_data |-> attachment,
                                created_at |-> isoformat(now), profile_id |-> user_id]
        IN  /\ chatkit_attachments' = IF ok THEN Upsert(chatkit_attachments, attachment_dict)
                                      ELSE chatkit_attachments
            /\ ret' = [op |-> "save_attachment", attachment |-> attachment,
                       failed |-> ~ok, raised |-> None]
            /\ UNCHANGED <<memvars, chatkit_threads, chatkit_thread_items>>

\* load_attachment, lines 156-169
Supabase_load_attachment(attachment_id) ==
    \E ok \in BOOLEAN :
        LET rows == RowsById(chatkit_attachments, attachment_id)
        IN  /\ ret' = IF ~ok
                      THEN [op |-> "load_attachment", attachment_id |-> attachment_id,
                            failed |-> TRUE, raised |-> "APIError"]
                      ELSE IF rows = {}
                      THEN [op |-> "load_attachment", attachment_id |-> attachment_id,
                            failed |-> FALSE, raised |-> "ValueError"]
                      ELSE [op |-> "load_attachment", attachment_id |-> attachment_id,
                            failed |-> FALSE, raised |-> None,
                            result |-> (CHOOSE r \in rows : TRUE).attachment_data]
            /\ UNCHANGED <<memvars, dbvars>>

\* delete_attachment, lines 171-176
Supabase_delete_attachment(attachment_id) ==
    \E ok \in BOOLEAN :
        /\ chatkit_attachments' = IF ok THEN DeleteById(chatkit_attachments, attachment_id)
                                  ELSE chatkit_attachments
        /\ ret' = [op |-> "delete_attachment", attachment_id |-> attachment_id,
                   failed |-> ~ok, raised |-> None]
        /\ UNCHANGED <<memvars, chatkit_threads, chatkit_thread_items>>

\* load_threads, lines 178-224
Supabase_load_threads(limit, after, order, user_id) ==
    \E ok \in BOOLEAN :
        LET rows == {r \in chatkit_threads :
                        /\ (user_id # None => r.profile_id = user_id)
                        /\ (after # NoCursor => GtCreatedAt(r.created_at, after))}
        IN  \E sorted \in OrderBy(rows, order) :
                LET data == Take(sorted, limit)
                    ts == [k \in 1..Len(data) |->
                              ThreadMetadata(data[k].id, data[k].title,
                                             fromisoformat(data[k].created_at),
                                             data[k].metadata)]
                    has_more == Len(ts) >= limit
                    page == IF ok
                            THEN Page(ts, has_more,
                                      IF ts # <<>> /\ has_more
                                      THEN IdStr(ts[Len(ts)].id) ELSE NoCursor)
                            ELSE EmptyPage
                IN  /\ ret' = ListRet("load_threads", user_id, after, limit,
                                      order, ~ok, None, page)
                    /\ UNCHANGED <<memvars, dbvars>>

\* the row add_thread_item and save_item build, lines 231-237 and 246-252
item_dict(thread_id, item, user_id) ==
    [id |-> item.id, thread_id |-> thread_id, item_data |-> model_dump(item),
     created_at |-> isoformat(item.created_at), profile_id |-> user_id]

\* add_thread_item, lines 226-241: insert() raises on an existing id
Supabase_add_thread_item(thread_id, item, user_id) ==
    \E ok \in BOOLEAN :
        LET existed == HasId(chatkit_thread_items, item.id)
            inserted == ok /\ ~existed
        IN  /\ chatkit_thread_items' =
                   IF inserted
                   THEN chatkit_thread_items \cup {item_dict(thread_id, item, user_id)}
                   ELSE chatkit_thread_items
            /\ ret' = [op |-> "add_thread_item", thread_id |-> thread_id, item |-> item,
                       existed |-> existed, failed |-> ~inserted, raised |-> None]
            /\ UNCHANGED <<memvars, chatkit_threads, chatkit_attachments>>

\* save_item, lines 243-256
Supabase_save_item(thread_id, item, user_id) ==
    \E ok \in BOOLEAN :
        /\ chatkit_thread_items' =
               IF ok THEN Upsert(chatkit_thread_items, item_dict(thread_id, item, user_id))
               ELSE chatkit_thread_items
        /\ ret' = [op |-> "save_item", thread_id |-> thread_id, item |-> item,
                   existed |-> (\E r \in chatkit_thread_items :
                                    r.id = item.id /\ r.thread_id = thread_id),
                   failed |-> ~ok, raised |-> None]
        /\ UNCHANGED <<memvars, chatkit_threads, chatkit_attachments>>

\* a load_item that looks the id up in every thread: what lines 258-271
\* would be without .eq("thread_id", thread_id)
Supabase_load_item_any_thread(thread_id, item_id) ==
    \E ok \in BOOLEAN :
        LET rows == {r \in chatkit_thread_items : r.id = item_id}
        IN  /\ ret' = IF ~ok
                      THEN [op |-> "load_item", thread_id |-> thread_id, item_id |-> item_id,
                            failed |-> TRUE, raised |-> "APIError"]
                      ELSE IF rows = {}
                      THEN [op |-> "load_item", thread_id |-> thread_id, item_id |-> item_id,
                            failed |-> FALSE, raised |-> "ValueError"]
                      ELSE [op |-> "load_item", thread_id |-> thread_id, item_id |-> item_id,
                            failed |-> FALSE, raised |-> None,
                            result |-> (CHOOSE r \in rows : TRUE).item_data]
            /\ UNCHANGED <<memvars, dbvars>>

\* load_item, lines 258-271
Supabase_load_item(thread_id, item_id) ==
    \E ok \in BOOLEAN :
        LET rows == {r \in chatkit_thread_items : r.id = item_id /\ r.thread_id = thread_id}
        IN  /\ ret' = IF ~ok
                      THEN [op |-> "load_item", thread_id |-> thread_id, item_id |-> item_id,
                            failed |-> TRUE, raised |-> "APIError"]
                      ELSE IF rows = {}
                      THEN [op |-> "load_item", thread_id |-> thread_id, item_id |-> item_id,
                            failed |-> FALSE, raised |-> "ValueError"]
                      ELSE [op |-> "load_item", thread_id |-> thread_id, item_id |-> item_id,
                            failed |-> FALSE, raised |-> None,
                            result |-> (CHOOSE r \in rows : TRUE).item_data]
            /\ UNCHANGED <<memvars, dbvars>>

\* delete_thread, lines 273-282: two requests, the second skipped when the
\* first raises
Supabase_delete_thread(thread_id) ==
    \E ok1 \in BOOLEAN, ok2 \in BOOLEAN :
        /\ chatkit_thread_items' =
               IF ok1 THEN DeleteByThread(chatkit_thread_items, thread_id)
               ELSE chatkit_thread_items
        /\ chatkit_threads' =
               IF ok1 /\ ok2 THEN DeleteById(chatkit_threads, thread_id)
               ELSE chatkit_threads
        /\ ret' = [op |-> "delete_thread", thread_id |-> thread_id,
                   failed |-> ~(ok1 /\ ok2), raised |-> None]
        /\ UNCHANGED <<memvars, chatkit_attachments>>

---------------------------------------------------------------------------
(* Harnesses for SupabaseStore: the calls of one family of operations, in   *)
(* any order and with any arguments.                                        *)

\* the context of a single caller, for operations whose result does not
\* depend on the caller
OneCaller == {"u1"}

\* items of threads: append, replace, list, load
NextSupabaseItems ==
    \/ \E t \in ThreadIds, item \in ItemObjects, u \in OneCaller :
           Supabase_add_thread_item(t, item, u) /\ UNCHANGED appvars
    \/ \E t \in ThreadIds, item \in ItemObjects, u \in OneCaller :
           Supabase_save_item(t, item, u) /\ UNCHANGED appvars
    \/ \E t \in ThreadIds, after \in AfterChoices, limit \in Limits, order \in Orders :
           Supabase_load_thread_items(t, after, limit, order) /\ UNCHANGED appvars
    \/ \E t \in ThreadIds, i \in ItemIds : Supabase_load_item(t, i) /\ UNCHANGED appvars

SpecSupabaseItems == Init /\ [][NextSupabaseItems]_vars

\* thread records: load, save, list
NextSupabaseThreads ==
    \/ \E t \in ThreadIds : Supabase_load_thread(t) /\ UNCHANGED appvars
    \/ \E th \in ThreadObjects, u \in Contexts : Supabase_save_thread(th, u) /\ UNCHANGED appvars
    \/ \E limit \in Limits, after \in AfterChoices, order \in Orders, u \in Contexts :
           Supabase_load_threads(limit, after, order, u) /\ UNCHANGED appvars

SpecSupabaseThreads == Init /\ [][NextSupabaseThreads]_vars

\* one item looked up after the calls that store, move and remove items
NextSupabaseLoadItem ==
    \/ \E t \in ThreadIds, item \in ItemObjects, u \in OneCaller :
           Supabase_add_thread_item(t, item, u) /\ UNCHANGED appvars
    \/ \E t \in ThreadIds, item \in ItemObjects, u \in OneCaller :
           Supabase_save_item(t, item, u) /\ UNCHANGED appvars
    \/ \E t \in ThreadIds : Supabase_delete_thread(t) /\ UNCHANGED appvars
    \/ \E t \in ThreadIds, i \in ItemIds : Supabase_load_item(t, i) /\ UNCHANGED appvars

SpecSupabaseLoadItem == Init /\ [][NextSupabaseLoadItem]_vars

\* the database holds fewer than MaxRows rows: room for one more
RoomInTables ==
    Cardinality(chatkit_threads) + Cardinality(chatkit_thread_items)
        + Cardinality(chatkit_attachments) < MaxRows

\* deletion of threads and attachments, after the writes that create them
NextSupabaseDelete ==
    \/ \E th \in ThreadObjects, u \in OneCaller :
           RoomInTables /\ Supabase_save_thread(th, u) /\ UNCHANGED appvars
    \/ \E t \in ThreadIds, item \in ItemObjects, u \in OneCaller :
           RoomInTables /\ Supabase_add_thread_item(t, item, u) /\ UNCHANGED appvars
    \/ \E a \in AttachmentObjects, u \in OneCaller :
           RoomInTables /\ Supabase_save_attachment(a, u) /\ UNCHANGED appvars
    \/ \E a \in AttIds : Supabase_load_attachment(a) /\ UNCHANGED appvars
    \/ \E a \in AttIds : Supabase_delete_attachment(a) /\ UNCHANGED appvars
    \/ \E t \in ThreadIds : Supabase_delete_thread(t) /\ UNCHANGED appvars

SpecSupabaseDelete == Init /\ [][NextSupabaseDelete]_vars

---------------------------------------------------------------------------
(* MemoryStore, src/simple_app.py *)

\* position of a key in the threads dict, 0 when absent
ThreadPos(d, id) ==
    IF \E k \in 1..Len(d) : d[k].id = id
    THEN CHOOSE k \in 1..Len(d) : d[k].id = id
    ELSE 0

\* d[key] = value: a present key keeps its position, a new key goes last
DictSet(d, value) ==
    IF ThreadPos(d, value.id) = 0
    THEN Append(d, value)
    ELSE [d EXCEPT ![ThreadPos(d, value.id)] = value]

\* del d[key]
DictDel(d, id) == SelectSeq(d, LAMBDA x : x.id # id)

\* load_thread, lines 38-50
Memory_load_thread(thread_id) ==
    \E now \in Times :
        LET pos == ThreadPos(threads, thread_id)
            thread == ThreadMetadata(thread_id, None, now, EmptyMetadata)
        IN  IF pos # 0
            THEN /\ ret' = [op |-> "load_thread", thread_id |-> thread_id,
                            existed |-> TRUE, failed |-> FALSE, raised |-> None,
                            result |-> threads[pos]]
                 /\ UNCHANGED <<memvars, dbvars>>
            ELSE /\ threads' = DictSet(threads, thread)
                 /\ ret' = [op |-> "load_thread", thread_id |-> thread_id,
                            existed |-> FALSE, failed |-> FALSE, raised |-> None,
                            result |-> thread]
                 /\ UNCHANGED <<thread_items, attachments, dbvars>>

\* save_thread, lines 52-53
Memory_save_thread(thread, user_id) ==
    /\ threads' = DictSet(threads, thread)
    /\ ret' = [op |-> "save_thread", thread |-> thread, user_id |-> user_id,
               existed |-> (ThreadPos(threads, thread.id) # 0),
               failed |-> FALSE, raised |-> None]
    /\ UNCHANGED <<thread_items, attachments, dbvars>>

\* load_thread_items, lines 55-57
Memory_load_thread_items(thread_id, after, limit, order) ==
    LET items == thread_items[thread_id]
    IN  /\ ret' = ListRet("load_thread_items", thread_id, after, limit, order,
                          FALSE, None, Page(Take(items, limit), FALSE, NoCursor))
        /\ UNCHANGED <<memvars, dbvars>>

\* add_thread_item, lines 59-62
Memory_add_thread_item(thread_id, item) ==
    /\ thread_items' = [thread_items EXCEPT ![thread_id] = Append(@, item)]
    /\ ret' = [op |-> "add_thread_item", thread_id |-> thread_id, item |-> item,
               existed |-> (\E t \in ThreadIds : \E k \in 1..Len(thread_items[t]) :
                                thread_items[t][k].id = item.id),
               failed |-> FALSE, raised |-> None]
    /\ UNCHANGED <<threads, attachments, dbvars>>

\* save_item, lines 64-65
Memory_save_item(thread_id, item) ==
    /\ ret' = [op |-> "save_item", thread_id |-> thread_id, item |-> item,
               existed |-> (\E k \in 1..Len(thread_items[thread_id]) :
                                thread_items[thread_id][k].id = item.id),
               failed |-> FALSE, raised |-> None]
    /\ UNCHANGED <<memvars, dbvars>>

\* the loop of load_item, lines 68-71: positions of the items with that id
Hits(items, item_id) == {k \in 1..Len(items) : items[k].id = item_id}
FirstHit(items, item_id) ==
    items[CHOOSE k \in Hits(items, item_id) : \A j \in Hits(items, item_id) : k <= j]

\* load_item, lines 67-72: the first item of the list with that id
Memory_load_item(thread_id, item_id) ==
    LET items == thread_items[thread_id]
    IN  /\ ret' = IF Hits(items, item_id) = {}
                  THEN [op |-> "load_item", thread_id |-> thread_id, item_id |-> item_id,
                        failed |-> FALSE, raised |-> "ValueError"]
                  ELSE [op |-> "load_item", thread_id |-> thread_id, item_id |-> item_id,
                        failed |-> FALSE, raised |-> None,
                        result |-> FirstHit(items, item_id)]
        /\ UNCHANGED <<memvars, dbvars>>

\* delete_thread_item, lines 74-75
Memory_delete_thread_item(thread_id, item_id) ==
    /\ ret' = [op |-> "delete_thread_item", thread_id |-> thread_id, item_id |-> item_id,
               existed |-> (\E k \in 1..Len(thread_items[thread_id]) :
                                thread_items[thread_id][k].id = item_id),
               failed |-> FALSE, raised |-> None]
    /\ UNCHANGED <<memvars, dbvars>>

\* load_threads, lines 77-79
Memory_load_threads(limit, after, order, user_id) ==
    /\ ret' = ListRet("load_threads", user_id, after, limit, order,
                      FALSE, None, Page(Take(threads, limit), FALSE, NoCursor))
    /\ UNCHANGED <<memvars, dbvars>>

\* delete_thread, lines 81-85
Memory_delete_thread(thread_id) ==
    /\ threads' = DictDel(threads, thread_id)
    /\ thread_items' = [thread_items EXCEPT ![thread_id] = <<>>]
    /\ ret' = [op |-> "delete_thread", thread_id |-> thread_id,
               failed |-> FALSE, raised |-> None]
    /\ UNCHANGED <<attachments, dbvars>>

\* save_attachment, lines 87-88
Memory_save_attachment(attachment) ==
    /\ attachments' = Upsert(attachments, attachment)
    /\ ret' = [op |-> "save_attachment", attachment |-> attachment,
               failed |-> FALSE, raised |-> None]
    /\ UNCHANGED <<threads, thread_items, dbvars>>

\* load_attachment, lines 90-91: dict.get, None for a missing key
Memory_load_attachment(attachment_id) ==
    LET hits == RowsById(attachments, attachment_id)
    IN  /\ ret' = IF hits = {}
                  THEN [op |-> "load_attachment", attachment_id |-> attachment_id,
                        failed |-> FALSE, raised |-> None, found |-> FALSE]
                  ELSE [op |-> "load_attachment", attachment_id |-> attachment_id,
                        failed |-> FALSE, raised |-> None, found |-> TRUE,
                        result |-> CHOOSE a \in hits : TRUE]
        /\ UNCHANGED <<memvars, dbvars>>

\* delete_attachment, lines 93-95
Memory_delete_attachment(attachment_id) ==
    /\ attachments' = DeleteById(attachments, attachment_id)
    /\ ret' = [op |-> "delete_attachment", attachment_id |-> attachment_id,
               failed |-> FALSE, raised |-> None]
    /\ UNCHANGED <<threads, thread_items, dbvars>>

\* the cursors a MemoryStore caller can hold
MemoryAfter == {NoCursor} \cup LastCursor

\* the lists of thread_items hold fewer than MaxRows items: room for one more
RECURSIVE StoredItems(_)
StoredItems(k) == IF k = 0 THEN 0 ELSE Len(thread_items[k]) + StoredItems(k - 1)
RoomInLists == StoredItems(MaxThreads) < MaxRows

\* items of threads
NextMemoryItems ==
    \/ \E t \in ThreadIds, item \in ItemObjects :
           RoomInLists /\ Memory_add_thread_item(t, item) /\ UNCHANGED appvars
    \/ \E t \in ThreadIds, item \in ItemObjects : Memory_save_item(t, item) /\ UNCHANGED appvars
    \/ \E t \in ThreadIds, i \in ItemIds : Memory_delete_thread_item(t, i) /\ UNCHANGED appvars
    \/ \E t \in ThreadIds : Memory_delete_thread(t) /\ UNCHANGED appvars
    \/ \E t \in ThreadIds, after \in MemoryAfter, limit \in Limits, order \in Orders :
           Memory_load_thread_items(t, after, limit, order) /\ UNCHANGED appvars
    \/ \E t \in ThreadIds, i \in ItemIds : Memory_load_item(t, i) /\ UNCHANGED appvars

SpecMemoryItems == Init /\ [][NextMemoryItems]_vars

\* thread records and attachments
NextMemoryThreads ==
    \/ \E t \in ThreadIds : Memory_load_thread(t) /\ UNCHANGED appvars
    \/ \E th \in ThreadObjects, u \in Contexts : Memory_save_thread(th, u) /\ UNCHANGED appvars
    \/ \E limit \in Limits, after \in MemoryAfter, order \in Orders, u \in Contexts :
           Memory_load_threads(limit, after, order, u) /\ UNCHANGED appvars
    \/ \E t \in ThreadIds : Memory_delete_thread(t) /\ UNCHANGED appvars
    \/ \E a \in AttachmentObjects : Memory_save_attachment(a) /\ UNCHANGED appvars
    \/ \E a \in AttIds : Memory_load_attachment(a) /\ UNCHANGED appvars
    \/ \E a \in AttIds : Memory_delete_attachment(a) /\ UNCHANGED appvars

SpecMemoryThreads == Init /\ [][NextMemoryThreads]_vars

---------------------------------------------------------------------------
(* _PostgresStore, src/app.py: thread and attachment operations over the    *)
(* tables init_pool creates.  chatkit_thread_items.thread_id and            *)
(* chatkit_attachments.thread_id reference chatkit_threads(id) ON DELETE    *)
(* CASCADE.  No handler catches an exception: a failed statement raises.    *)

\* DELETE FROM chatkit_threads WHERE id = $1, with the cascades of the DDL,
\* lines 86-103
CascadeDelete(table, thread_id) == {r \in table : r.thread_id # thread_id}

\* the foreign key of lines 89 and 99: NULL or the id of a thread row
ForeignKeyOk(thread_id) == thread_id = NULL \/ HasId(chatkit_threads, thread_id)

\* load_thread, lines 120-146
Postgres_load_thread(thread_id) ==
    \E ok \in BOOLEAN, now \in Times :
        LET rows == RowsById(chatkit_threads, thread_id)
        IN  /\ ret' = IF ~ok
                      THEN [op |-> "load_thread", thread_id |-> thread_id,
                            existed |-> (rows # {}), failed |-> TRUE,
                            raised |-> "PostgresError"]
                      ELSE [op |-> "load_thread", thread_id |-> thread_id,
                            existed |-> (rows # {}), failed |-> FALSE, raised |-> None,
                            result |-> IF rows # {}
                                       THEN LET r == CHOOSE r \in rows : TRUE
                                            IN ThreadMetadata(r.id, r.title, r.created_at,
                                                              r.metadata)
                                       ELSE ThreadMetadata(thread_id, None, now,
                                                           EmptyMetadata)]
            /\ UNCHANGED <<memvars, dbvars>>

\* INSERT ... ON CONFLICT (id) DO UPDATE SET title, status, metadata,
\* lines 154-161: an existing row keeps its created_at
InsertOrUpdateThread(table, thread) ==
    LET rows == RowsById(table, thread.id)
    IN  IF rows = {}
        THEN table \cup {[id |-> thread.id, title |-> thread.title,
                          created_at |-> thread.created_at,
                          metadata |-> thread.metadata]}
        ELSE LET old == CHOOSE r \in rows : TRUE
             IN (table \ rows) \cup {[old EXCEPT !.title = thread.title,
                                                 !.metadata = thread.metadata]}

\* save_thread, lines 148-167
Postgres_save_thread(thread, user_id) ==
    \E ok \in BOOLEAN :
        /\ chatkit_threads' = IF ok THEN InsertOrUpdateThread(chatkit_threads, thread)
                              ELSE chatkit_threads
        /\ ret' = [op |-> "save_thread", thread |-> thread, user_id |-> user_id,
                   failed |-> ~ok, raised |-> IF ok THEN None ELSE "PostgresError"]
        /\ UNCHANGED <<memvars, chatkit_thread_items, chatkit_attachments>>

\* delete_thread, lines 338-347
Postgres_delete_thread(thread_id) ==
    \E ok \in BOOLEAN :
        /\ chatkit_threads' = IF ok THEN DeleteById(chatkit_threads, thread_id)
                              ELSE chatkit_threads
        /\ chatkit_thread_items' = IF ok THEN CascadeDelete(chatkit_thread_items, thread_id)
                                   ELSE chatkit_thread_items
        /\ chatkit_attachments' = IF ok THEN CascadeDelete(chatkit_attachments, thread_id)
                                  ELSE chatkit_attachments
        /\ ret' = [op |-> "delete_thread", thread_id |-> thread_id,
                   failed |-> ~ok, raised |-> IF ok THEN None ELSE "PostgresError"]
        /\ UNCHANGED memvars

\* INSERT ... ON CONFLICT (id) DO UPDATE SET data, lines 356-358
InsertOrUpdateAttachment(table, row) ==
    LET rows == RowsById(table, row.id)
    IN  IF rows = {}
        THEN table \cup {row}
        ELSE (table \ rows) \cup {[(CHOOSE r \in rows : TRUE) EXCEPT !.data = row.data]}

\* save_attachment, lines 349-364: thread_id comes from the context
Postgres_save_attachment(attachment, thread_id) ==
    \E ok \in BOOLEAN, now \in Times :
        LET row == [id |-> attachment.id, thread_id |-> thread_id,
                    data |-> attachment, created_at |-> now]
            fk == HasId(chatkit_attachments, attachment.id) \/ ForeignKeyOk(thread_id)
            stored == ok /\ fk
        IN  /\ chatkit_attachments' =
                   IF stored THEN InsertOrUpdateAttachment(chatkit_attachments, row)
                   ELSE chatkit_attachments
            /\ ret' = [op |-> "save_attachment", attachment |-> attachment,
                       failed |-> ~stored,
                       raised |-> IF stored THEN None ELSE "PostgresError"]
            /\ UNCHANGED <<memvars, chatkit_threads, chatkit_thread_items>>

\* load_attachment, lines 366-381
Postgres_load_attachment(attachment_id) ==
    \E ok \in BOOLEAN :
        LET rows == RowsById(chatkit_attachments, attachment_id)
        IN  /\ ret' = IF ~ok
                      THEN [op |-> "load_attachment", attachment_id |-> attachment_id,
                            failed |-> TRUE, raised |-> "PostgresError"]
                      ELSE IF rows = {}
                      THEN [op |-> "load_attachment", attachment_id |-> attachment_id,
                            failed |-> FALSE, raised |-> "ValueError"]
                      ELSE [op |-> "load_attachment", attachment_id |-> attachment_id,
                            failed |-> FALSE, raised |-> None,
                            result |-> (CHOOSE r \in rows : TRUE).data]
            /\ UNCHANGED <<memvars, dbvars>>

\* delete_attachment, lines 383-392
Postgres_delete_attachment(attachment_id) ==
    \E ok \in BOOLEAN :
        /\ chatkit_attachments' = IF ok THEN DeleteById(chatkit_attachments, attachment_id)
                                  ELSE chatkit_attachments
        /\ ret' = [op |-> "delete_attachment", attachment_id |-> attachment_id,
                   failed |-> ~ok, raised |-> IF ok THEN None ELSE "PostgresError"]
        /\ UNCHANGED <<memvars, chatkit_threads, chatkit_thread_items>>

NextPostgres ==
    \/ \E t \in ThreadIds : Postgres_load_thread(t) /\ UNCHANGED appvars
    \/ \E th \in ThreadObjects, u \in Contexts : Postgres_save_thread(th, u) /\ UNCHANGED appvars
    \/ \E t \in ThreadIds : Postgres_delete_thread(t) /\ UNCHANGED appvars
    \/ \E a \in AttachmentObjects : Postgres_save_attachment(a, a.thread_id) /\ UNCHANGED appvars
    \/ \E a \in AttIds : Postgres_load_attachment(a) /\ UNCHANGED appvars
    \/ \E a \in AttIds : Postgres_delete_attachment(a) /\ UNCHANGED appvars

SpecPostgres == Init /\ [][NextPostgres]_vars

---------------------------------------------------------------------------
(* ProfessorLockChatKitServer.action, src/pp_server.py:339-395: the handler *)
(* of a widget action.  Each request runs its own handler; the server       *)
(* processes share the Supabase database, so the insert request of one      *)
(* handler reaches the database at any time after the handler built the     *)
(* item, also after the requests of handlers that started later.            *)

\* a clock tick: later calls of datetime.now() return a later time
Tick ==
    /\ clock < MaxTime
    /\ clock' = clock + 1
    /\ UNCHANGED <<memvars, dbvars, ret, handler, insertions>>

\* the ids that uuid4 has not handed out: not stored, not held by a handler
FreshIds ==
    ItemIds \ ({row.id : row \in chatkit_thread_items}
               \cup {handler[r].hidden.id : r \in Requests})

\* lines 348-375, action.type == "submit_parlay": build the confirmation
\* widget item, stamp it and yield it
action_submit_parlay(r, thread_id, payload) ==
    /\ handler[r].pc = "idle"
    /\ \E id \in ItemIds :
           handler' = [handler EXCEPT ![r] =
                          [pc |-> "yielded", type |-> "submit_parlay",
                           thread_id |-> thread_id, payload |-> payload,
                           widget_item |-> ThreadItem(id, clock, "confirmation"),
                           hidden |-> NoItem]]
    /\ UNCHANGED <<memvars, dbvars, ret, clock, insertions>>

\* lines 378-383: resumed after the yield, build the hidden context item
\* with a new id and created_at = datetime.now()
action_hidden(r) ==
    /\ handler[r].pc = "yielded"
    /\ \E id \in FreshIds :
           handler' = [handler EXCEPT ![r].pc = "stamped",
                                      ![r].hidden = ThreadItem(id, clock, handler[r].payload)]
    /\ UNCHANGED <<memvars, dbvars, ret, clock, insertions>>

\* line 384: await self.store.add_thread_item(thread.id, hidden, context),
\* the end of the submit_parlay branch
action_add_thread_item(r) ==
    /\ handler[r].pc = "stamped"
    /\ \E u \in OneCaller :
           /\ Supabase_add_thread_item(handler[r].thread_id, handler[r].hidden, u)
           /\ insertions' = IF chatkit_thread_items' # chatkit_thread_items
                          THEN Append(insertions, item_dict(handler[r].thread_id,
                                                          handler[r].hidden, u))
                          ELSE insertions
    /\ handler' = [handler EXCEPT ![r] = [Idle EXCEPT !.type = "submit_parlay"]]
    /\ UNCHANGED clock

\* lines 386-390, action.type == "remove_leg": a progress event, no store call
action_remove_leg(r) ==
    /\ handler[r].pc = "idle"
    /\ handler[r].type # "remove_leg"
    /\ handler' = [handler EXCEPT ![r].type = "remove_leg"]
    /\ UNCHANGED <<memvars, dbvars, ret, clock, insertions>>

\* lines 392-395, action.type == "add_legs": hands over to respond()
action_add_legs(r) ==
    /\ handler[r].pc = "idle"
    /\ handler[r].type # "add_legs"
    /\ handler' = [handler EXCEPT ![r].type = "add_legs"]
    /\ UNCHANGED <<memvars, dbvars, ret, clock, insertions>>

NextAction ==
    \/ Tick
    \/ \E r \in Requests, t \in ThreadIds, payload \in Payloads :
           action_submit_parlay(r, t, payload)
    \/ \E r \in Requests : action_hidden(r)
    \/ \E r \in Requests : action_add_thread_item(r)
    \/ \E r \in Requests : action_remove_leg(r)
    \/ \E r \in Requests : action_add_legs(r)

SpecAction == Init /\ [][NextAction]_vars

\* fewer items stored and being made than there are ids: a handler that
\* starts finds an id for its hidden item
RoomForItem ==
    Cardinality(chatkit_thread_items)
        + Cardinality({r \in Requests : handler[r].pc # "idle"}) < MaxItems

\* the actions of the handler, each request running to its end
NextSubmit ==
    \/ \E r \in Requests, t \in ThreadIds, payload \in Payloads :
           RoomForItem /\ action_submit_parlay(r, t, payload)
    \/ \E r \in Requests : action_hidden(r)
    \/ \E r \in Requests : action_add_thread_item(r)
    \/ \E r \in Requests : action_remove_leg(r)
    \/ \E r \in Requests : action_add_legs(r)

\* the event loop resumes a generator that was suspended at its yield and
\* a coroutine awaiting the store: a started handler takes its next step
SpecSubmit ==
    /\ Init /\ [][NextSubmit]_vars
    /\ \A r \in Requests : WF_vars(action_hidden(r)) /\ WF_vars(action_add_thread_item(r))

---------------------------------------------------------------------------
(* BettingAnalysisTool.analyze_value, src/parleyapp_tools.py:210-284 (the   *)
(* tool pp_server imports) and src/pp_tools.py:165-208.  Python floats are  *)
(* fixed-point numbers in thousandths here: 52.5 is 52500 and 0.524 is 524, *)
(* a division truncates to the thousandth below.                            *)

Abs(x) == IF x < 0 THEN -x ELSE x

\* bet["odds"] as the caller passes it: an int, or a string of an optional
\* sign and some text that is a number (valid) or is not
IntOdds(n) == [kind |-> "int", sign |-> "", digits |-> n, valid |-> TRUE]
StrOdds(sign, n, valid) == [kind |-> "str", sign |-> sign, digits |-> n, valid |-> valid]

\* the American odds the bets carry
OddsValues == {50, 100, 105, 110, 120, 150, 200, 250, 300, 400}

OddsInputs ==
    {IntOdds(n) : n \in OddsValues} \cup {IntOdds(-n) : n \in OddsValues}
        \cup {StrOdds(sign, n, TRUE) : sign \in {"+", "-"}, n \in OddsValues}
        \cup {StrOdds("", 110, FALSE), IntOdds(0)}

BetTypes == {"over", "under", "spread", "moneyline", "player_prop"}

Bets == [odds : OddsInputs, type : BetTypes]

\* parleyapp_tools.py lines 214-221: a string loses its sign characters, is
\* read as an int and negated when it began with "-"; -110 when int() raises
parse_odds(odds) ==
    IF odds.kind = "int" THEN odds.digits
    ELSE IF ~odds.valid THEN -110
    ELSE IF odds.sign = "-" THEN -odds.digits
    ELSE odds.digits

\* an implied probability that takes the branch of the negative odds for
\* every odds
implied_prob_one_branch(odds) ==
    (Abs(odds) * 1000) \div (Abs(odds) + 100)

\* lines 223-226 (pp_tools.py 170-173): a fraction between 0 and 1
implied_prob(odds) ==
    IF odds > 0 THEN (100 * 1000) \div (odds + 100)
    ELSE (Abs(odds) * 1000) \div (Abs(odds) + 100)

\* parleyapp_tools.py lines 247-266: a percentage
parleyapp_get_historical_rate(bet) ==
    IF bet.type \in {"over", "under"} THEN 52500
    ELSE IF bet.type = "spread" THEN 51800
    ELSE IF bet.type = "moneyline" THEN 58200
    ELSE 54000

\* pp_tools.py lines 189-194
pp_get_historical_rate(bet) == 55000

\* parleyapp_tools.py lines 268-284
parleyapp_calculate_confidence(edge) ==
    IF edge >= 15000 THEN "MAX CONFIDENCE"
    ELSE IF edge >= 10000 THEN "VERY HIGH"
    ELSE IF edge >= 7000 THEN "HIGH"
    ELSE IF edge >= 5000 THEN "SOLID"
    ELSE IF edge >= 3000 THEN "DECENT"
    ELSE IF edge >= 1000 THEN "SLIGHT LEAN"
    ELSE "NO VALUE"

\* pp_tools.py lines 196-208
pp_calculate_confidence(edge) ==
    IF edge >= 10000 THEN "MAX"
    ELSE IF edge >= 7000 THEN "HIGH"
    ELSE IF edge >= 5000 THEN "SOLID"
    ELSE IF edge >= 3000 THEN "DECENT"
    ELSE "LOW"

\* f"{x:.1f}": the number rounded to tenths, as a count of tenths
format_1f(x) ==
    IF x >= 0 THEN (x + 50) \div 100 ELSE -((50 - x) \div 100)

\* the stake of lines 235-236 without min(25, ...)
kelly_percentage_no_cap(edge, p) ==
    LET kelly_stake == IF p < 1000 THEN (edge * (1000 - p)) \div p ELSE 0
        percent == kelly_stake * 100
    IN  IF percent < 0 THEN 0 ELSE percent

\* parleyapp_tools.py lines 235-236: the stake in percent, capped at 25;
\* evaluated for p # 0, where the division is defined
kelly_percentage(edge, p) ==
    LET kelly_stake == IF p < 1000 THEN (edge * (1000 - p)) \div p ELSE 0
        percent == kelly_stake * 100
    IN  IF percent < 0 THEN 0 ELSE IF percent > 25000 THEN 25000 ELSE percent

\* lines 235-236 on their own: the stake for an edge and an implied
\* probability; implied_prob / (1 - implied_prob) is 0.0 for implied_prob = 0
\* and the division by it raises
analyze_value_kelly(edge, p) ==
    /\ ret' = IF p = 0
              THEN [op |-> "kelly_stake", edge |-> edge, implied_prob |-> p,
                    raised |-> "ZeroDivisionError"]
              ELSE [op |-> "kelly_stake", edge |-> edge, implied_prob |-> p,
                    raised |-> None, kelly_percentage |-> kelly_percentage(edge, p)]
    /\ UNCHANGED <<memvars, dbvars, appvars>>

\* _calculate_confidence called with an edge
parleyapp_confidence(edge) ==
    /\ ret' = [op |-> "calculate_confidence", tool |-> "parleyapp_tools",
               edge |-> edge, raised |-> None,
               result |-> parleyapp_calculate_confidence(edge)]
    /\ UNCHANGED <<memvars, dbvars, appvars>>

pp_confidence(edge) ==
    /\ ret' = [op |-> "calculate_confidence", tool |-> "pp_tools",
               edge |-> edge, raised |-> None,
               result |-> pp_calculate_confidence(edge)]
    /\ UNCHANGED <<memvars, dbvars, appvars>>

\* parleyapp_tools.py lines 210-245
parleyapp_analyze_value(bet) ==
    LET odds == parse_odds(bet.odds)
        p == implied_prob(odds)
        historical_rate == parleyapp_get_historical_rate(bet)
        edge == historical_rate - p
    IN  /\ ret' =
               IF p = 0
               THEN [op |-> "analyze_value", tool |-> "parleyapp_tools", bet |-> bet,
                     raised |-> "ZeroDivisionError"]
               ELSE
                  [op |-> "analyze_value", tool |-> "parleyapp_tools", bet |-> bet,
                   raised |-> None, odds |-> odds, implied_prob |-> p, edge |-> edge,
                   result |-> [implied_probability |-> format_1f(p),
                               historical_rate |-> format_1f(historical_rate),
                               edge |-> format_1f(edge),
                               kelly_stake |-> format_1f(kelly_percentage(edge, p)),
                               recommendation |->
                                   IF edge > 10000 THEN "STRONG BET"
                                   ELSE IF edge > 5000 THEN "SOLID BET"
                                   ELSE IF edge > 2000 THEN "LEAN" ELSE "PASS",
                               confidence |-> parleyapp_calculate_confidence(edge)]]
        /\ UNCHANGED <<memvars, dbvars, appvars>>

\* pp_tools.py lines 165-187: odds is compared as it comes, and a string
\* compared with 0 raises
pp_analyze_value(bet) ==
    /\ ret' = IF bet.odds.kind = "str"
              THEN [op |-> "analyze_value", tool |-> "pp_tools", bet |-> bet,
                    raised |-> "TypeError"]
              ELSE LET odds == bet.odds.digits
                       p == implied_prob(odds)
                       historical_rate == pp_get_historical_rate(bet)
                       edge == historical_rate - p
                   IN  [op |-> "analyze_value", tool |-> "pp_tools", bet |-> bet,
                        raised |-> None, odds |-> odds, implied_prob |-> p,
                        edge |-> edge,
                        result |-> [implied_probability |-> format_1f(p),
                                    historical_rate |-> format_1f(historical_rate),
                                    edge |-> format_1f(edge),
                                    recommendation |->
                                        IF edge > 3000 THEN "BET" ELSE "PASS",
                                    confidence |-> pp_calculate_confidence(edge)]]
    /\ UNCHANGED <<memvars, dbvars, appvars>>

---------------------------------------------------------------------------
(* Parlay quotes: create_parlay_builder_widget and _american_to_decimal of  *)
(* src/parleyapp_widgets.py:115-248, 372-383, build_parlay and              *)
(* _american_to_decimal of src/pp_server.py:198-303, and                    *)
(* SportsWidgets.parlay_builder of src/chatkit/widgets/sports_widgets.py.   *)
(* Decimal odds and dollar amounts are fixed-point numbers in thousandths.  *)

\* a leg without the key "odds"
MissingOdds == [kind |-> "missing", sign |-> "", digits |-> 0, valid |-> FALSE]

\* the int an odds value stands for: an int, or the text of a string with
\* its sign
int_odds(odds) ==
    IF odds.kind = "str" /\ odds.sign = "-" THEN -odds.digits ELSE odds.digits

\* parleyapp_widgets.py lines 372-383: every exception (int() of a string
\* that is no number, division by abs(0)) ends in the default 2.0
american_to_decimal(odds) ==
    IF odds.kind = "str" /\ ~odds.valid THEN 2000
    ELSE IF int_odds(odds) > 0 THEN int_odds(odds) * 10 + 1000
    ELSE IF int_odds(odds) = 0 THEN 2000
    ELSE 100000 \div Abs(int_odds(odds)) + 1000

\* pp_server.py lines 298-303: no conversion and no try; a string compared
\* with 0 and a division by abs(0) raise
pp_server_american_to_decimal(odds) ==
    IF odds.kind = "str" THEN [raised |-> "TypeError", value |-> 0]
    ELSE IF odds.digits > 0 THEN [raised |-> None, value |-> odds.digits * 10 + 1000]
    ELSE IF odds.digits = 0 THEN [raised |-> "ZeroDivisionError", value |-> 0]
    ELSE [raised |-> None, value |-> 100000 \div Abs(odds.digits) + 1000]

\* leg.get("odds", -110)
leg_odds(leg) == IF leg.kind = "missing" THEN IntOdds(-110) ELSE leg

\* the odds of the legs of a parlay
LegOdds ==
    {IntOdds(-110), IntOdds(-150), IntOdds(130), IntOdds(100), IntOdds(0),
     StrOdds("+", 150, TRUE), StrOdds("-", 110, TRUE), StrOdds("", 110, FALSE),
     MissingOdds}

\* the legs of a parlay: each leg is its odds
Legs == UNION {[1..n -> LegOdds] : n \in 0..MaxLegs}

Stakes == {10, 100}

\* _american_to_decimal called on its own
american_to_decimal_call(odds) ==
    /\ ret' = [op |-> "american_to_decimal", odds |-> odds, raised |-> None,
               result |-> american_to_decimal(odds)]
    /\ UNCHANGED <<memvars, dbvars, appvars>>

\* lines 119-122: total_odds = 1.0, multiplied by the decimal odds of each
\* of the first k legs
RECURSIVE total_odds(_, _)
total_odds(legs, k) ==
    IF k = 0 THEN 1000
    ELSE (total_odds(legs, k - 1) * american_to_decimal(leg_odds(legs[k]))) \div 1000

\* f"+{int((total_odds - 1) * 100)}": the American odds the widget shows
shown_american(total) == (total - 1000) \div 10

\* f"${x:.2f}": dollars rounded to cents, as a count of cents
format_2f(x) == (x + 5) \div 10

\* a builder that quotes the constant multiple of the stake that
\* sports_widgets.py line 147 quotes
create_parlay_builder_widget_constant(legs, stake) ==
    LET total == total_odds(legs, Len(legs))
        potential_payout == stake * 2500
        profit == potential_payout - stake * 1000
    IN  /\ ret' = [op |-> "create_parlay_builder_widget", legs |-> legs,
                   stake |-> stake, raised |-> None,
                   total_odds |-> total, payout |-> potential_payout,
                   profit |-> profit,
                   shown_odds |-> shown_american(total),
                   shown_payout |-> format_2f(potential_payout)]
        /\ UNCHANGED <<memvars, dbvars, appvars>>

\* parleyapp_widgets.py lines 115-248
create_parlay_builder_widget(legs, stake) ==
    LET total == total_odds(legs, Len(legs))
        potential_payout == stake * total
        profit == potential_payout - stake * 1000
    IN  /\ ret' = [op |-> "create_parlay_builder_widget", legs |-> legs,
                   stake |-> stake, raised |-> None,
                   total_odds |-> total, payout |-> potential_payout,
                   profit |-> profit,
                   shown_odds |-> shown_american(total),
                   shown_payout |-> format_2f(potential_payout)]
        /\ UNCHANGED <<memvars, dbvars, appvars>>

\* pp_server.py lines 207-210: the product, or the exception of the first
\* leg whose conversion raises
RECURSIVE build_parlay_total(_, _)
build_parlay_total(legs, k) ==
    IF k = 0 THEN [raised |-> None, value |-> 1000]
    ELSE LET before == build_parlay_total(legs, k - 1)
             decimal_odds == pp_server_american_to_decimal(leg_odds(legs[k]))
         IN  IF before.raised # None THEN before
             ELSE IF decimal_odds.raised # None THEN decimal_odds
             ELSE [raised |-> None, value |-> (before.value * decimal_odds.value) \div 1000]

\* pp_server.py lines 198-296
build_parlay(legs, stake) ==
    LET total == build_parlay_total(legs, Len(legs))
        payout == stake * total.value
    IN  /\ ret' = IF total.raised # None
                  THEN [op |-> "build_parlay", legs |-> legs, stake |-> stake,
                        raised |-> total.raised]
                  ELSE [op |-> "build_parlay", legs |-> legs, stake |-> stake,
                        raised |-> None,
                        total_odds |-> total.value, payout |-> payout,
                        profit |-> payout - stake * 1000,
                        shown_odds |-> shown_american(total.value),
                        shown_payout |-> format_2f(payout)]
        /\ UNCHANGED <<memvars, dbvars, appvars>>

\* the picks of the parlay widget of sports_widgets.py: odds as the text
\* the widget prints, and whether the pick is in the parlay
PickOdds == {StrOdds("+", 150, TRUE), StrOdds("-", 110, TRUE), StrOdds("+", 130, TRUE)}
Picks == UNION {[1..n -> [odds : PickOdds, selected : BOOLEAN]] : n \in 0..MaxLegs}

\* the total odds a caller of parlay_builder passes, '+0' when it passes none
CallerTotals == {0, 264}

\* the selected picks, in order
RECURSIVE selected_picks(_, _)
selected_picks(picks, k) ==
    IF k = 0 THEN <<>>
    ELSE IF picks[k].selected
         THEN Append(selected_picks(picks, k - 1), picks[k].odds)
         ELSE selected_picks(picks, k - 1)

\* sports_widgets.py lines 71-161: the total odds are the argument and the
\* potential payout is stake * 2.5; both are shown when a pick is selected
parlay_builder(picks, caller_total, stake) ==
    LET selected == selected_picks(picks, Len(picks))
    IN  /\ ret' = [op |-> "parlay_builder", picks |-> picks, legs |-> selected,
                   stake |-> stake, raised |-> None,
                   quoted |-> (selected # <<>>),
                   shown_odds |-> caller_total,
                   payout |-> stake * 2500,
                   shown_payout |-> format_2f(stake * 2500)]
        /\ UNCHANGED <<memvars, dbvars, appvars>>

NextParlay ==
    \/ \E legs \in Legs, stake \in Stakes : create_parlay_builder_widget(legs, stake)
    \/ \E legs \in Legs, stake \in Stakes : build_parlay(legs, stake)
    \/ \E picks \in Picks, total \in CallerTotals, stake \in Stakes :
           parlay_builder(picks, total, stake)

SpecParlay == Init /\ [][NextParlay]_vars

---------------------------------------------------------------------------
(* The value analysis, its parts and the odds conversion, each called with  *)
(* any argument.                                                            *)

\* the edges and implied probabilities the parts of analyze_value are
\* applied to, in thousandths
Edges ==
    {-60000, -20000, -1000, 0, 500, 1000, 1500, 3000, 4999, 5000, 7000,
     9999, 10000, 14999, 15000, 20000, 60000}
Probabilities == {0, 100, 250, 500, 524, 750, 900, 999, 1000}

NextAnalysis ==
    \/ \E bet \in Bets : parleyapp_analyze_value(bet)
    \/ \E bet \in Bets : pp_analyze_value(bet)
    \/ \E edge \in Edges, p \in Probabilities : analyze_value_kelly(edge, p)
    \/ \E edge \in Edges : parleyapp_confidence(edge)
    \/ \E edge \in Edges : pp_confidence(edge)
    \/ \E odds \in OddsInputs : american_to_decimal_call(odds)

SpecAnalysis == Init /\ [][NextAnalysis]_vars

---------------------------------------------------------------------------
(* Properties of the conversation store *)

\* the item rows of a thread, and their ids
RowsOfThread(thread_id) == {r \in chatkit_thread_items : r.thread_id = thread_id}
IdsOfThread(thread_id) == {r.id : r \in RowsOfThread(thread_id)}

\* the last call was a page of load_thread_items in a run that started
\* without a cursor and followed every returned cursor, with no failed
\* storage request and no other call in between
InRun == ret.op = "load_thread_items" /\ ret.chain /\ ret.clean

NoDuplicates(seq) == \A a, b \in 1..Len(seq) : a # b => seq[a] # seq[b]

\* C1: for a thread of N items and a page size 0 < L < N, following the
\* returned cursor from an empty start until no cursor is returned yields
\* each of the N items exactly once, and the last page has has_more = false.
C1_PaginationReturnsEveryItemOnce ==
    (/\ InRun
     /\ ret.limit < Cardinality(RowsOfThread(ret.key))
     /\ ret.page.next_cursor = NoCursor)
    => /\ ~ret.page.has_more
       /\ NoDuplicates(ret.acc)
       /\ Range(ret.acc) = IdsOfThread(ret.key)

\* the records that qualify for a list call: they match the thread / owner
\* filter and lie after the cursor
Qualifying ==
    IF ret.op = "load_thread_items"
    THEN {r \in chatkit_thread_items :
              /\ r.thread_id = ret.key
              /\ (ret.after # NoCursor => GtCreatedAt(r.created_at, ret.after))}
    ELSE {r \in chatkit_threads :
              /\ (ret.key # None => r.profile_id = ret.key)
              /\ (ret.after # NoCursor => GtCreatedAt(r.created_at, ret.after))}

\* C2: a page of load_thread_items or load_threads has has_more = true if
\* and only if strictly more than `limit` records qualify; with exactly
\* `limit` qualifying records has_more is false.
C2_HasMoreIffMoreThanLimit ==
    (ret.op \in {"load_thread_items", "load_threads"} /\ ~ret.failed)
    => (ret.page.has_more <=> Cardinality(Qualifying) > ret.limit)

\* row a comes no later than row b in the requested order
NoLater(a, b, order) ==
    IF order = "asc"
    THEN fromisoformat(a.created_at) <= fromisoformat(b.created_at)
    ELSE fromisoformat(a.created_at) >= fromisoformat(b.created_at)

RowOf(id) == CHOOSE r \in chatkit_thread_items : r.id = id

Min(a, b) == IF a <= b THEN a ELSE b

\* C3: in either order, the page requested with the cursor of the previous
\* page holds items of that thread only, none of them seen before, and it
\* is the next slice: the immediate successors of the previous page's last
\* item, none skipped.
C3_NextPageIsNextSlice ==
    (InRun /\ ret.after # NoCursor)
    => LET rest == IdsOfThread(ret.key) \ Range(ret.prev)
           got == {ret.page.data[k].id : k \in 1..Len(ret.page.data)}
       IN  /\ got \subseteq rest
           /\ Len(ret.page.data) = Min(ret.limit, Cardinality(rest))
           /\ \A g \in got, r \in rest \ got : NoLater(RowOf(g), RowOf(r), ret.order)

\* C4: add_thread_item with an item id that is already stored fails with a
\* Conflict the caller observes, and leaves the stored items unchanged.
C4_DuplicateAppendIsConflict ==
    [][(ret'.op = "add_thread_item" /\ ret'.existed)
       => (ret'.raised # None /\ chatkit_thread_items' = chatkit_thread_items)]_vars

\* every stored item of MemoryStore as <<thread id, position>>
MemorySlots == {<<t, k>> : t \in ThreadIds, k \in 1..MaxRows}
StoredSlots == {sl \in MemorySlots : sl[2] <= Len(thread_items[sl[1]])}

\* C5: after any sequence of add_thread_item, save_item, delete_thread_item
\* and delete_thread calls no two stored items share an id, across all the
\* threads of the store.
C5_ItemIdsUniqueInStore ==
    \A a, b \in StoredSlots :
        a # b => thread_items[a[1]][a[2]].id # thread_items[b[1]][b[2]].id

\* C6: load_thread of an id with no stored record returns a default thread
\* with that id and leaves the store unchanged: the thread is still absent.
C6_LoadThreadDoesNotPersist ==
    (ret.op = "load_thread" /\ ~ret.existed)
    => /\ ret.result.id = ret.thread_id
       /\ ThreadPos(threads, ret.thread_id) = 0

\* C7: after delete_thread_item(thread, item_id) returns, the item is not
\* in the store: load_item for it fails with not-found.
C7_DeleteThreadItemRemoves ==
    (ret.op = "delete_thread_item")
    => Hits(thread_items[ret.thread_id], ret.item_id) = {}

\* C8: after save_item(thread, item) for an id that exists in that thread,
\* load_item(thread, item.id) returns the saved record in full.
C8_SaveItemReplacesRecord ==
    (ret.op = "save_item" /\ ret.existed)
    => /\ Hits(thread_items[ret.thread_id], ret.item.id) # {}
       /\ FirstHit(thread_items[ret.thread_id], ret.item.id) = ret.item

\* C9: after delete_thread(t) returns, neither a thread record with id t
\* nor an item owned by t remains, also when a storage request failed.
C9_DeleteThreadCascades ==
    (ret.op = "delete_thread")
    => /\ ~HasId(chatkit_threads, ret.thread_id)
       /\ RowsOfThread(ret.thread_id) = {}

C11_ReadFailureIsReported ==
    (ret.op \in {"load_thread", "load_thread_items", "load_threads"} /\ ret.failed)
    => ret.raised # None

\* C12: after add_thread_item returns without an error the item is stored:
\* load_item finds it under that thread and load_thread_items replays it.
\* An insert that failed is never a normal return.
C12_AppendedItemIsStored ==
    (ret.op = "add_thread_item" /\ ret.raised = None)
    => /\ ~ret.failed
       /\ \E r \in RowsOfThread(ret.thread_id) :
              r.id = ret.item.id /\ r.item_data = model_dump(ret.item)

\* C13: load_item of an id that has no item in that thread (never stored,
\* removed with its thread, or stored under another thread) raises: the
\* not-found error when the lookup ran, the storage error when it failed.
\* It never returns an item.
C13_LoadItemNotFound ==
    (ret.op = "load_item" /\ ret.item_id \notin IdsOfThread(ret.thread_id))
    => /\ ret.raised # None
       /\ ~ret.failed => ret.raised = "ValueError"
       /\ "result" \notin DOMAIN ret

\* a lookup that ran and found the id only under another thread
C13_Witness ==
    /\ ret.op = "load_item" /\ ~ret.failed /\ ret.raised = "ValueError"
    /\ \E r \in chatkit_thread_items : r.id = ret.item_id /\ r.thread_id # ret.thread_id

\* C14: load_attachment of an id with no stored record raises a not-found
\* error: it never returns an empty or default value.
C14_LoadAttachmentNotFound ==
    (ret.op = "load_attachment" /\ ~HasId(attachments, ret.attachment_id)
        /\ ~HasId(chatkit_attachments, ret.attachment_id))
    => ret.raised # None

PosIn(page, id) ==
    IF \E k \in 1..Len(page.data) : page.data[k].id = id
    THEN CHOOSE k \in 1..Len(page.data) : page.data[k].id = id
    ELSE 0

\* two items that both pages hold come in the same relative order
SameRelativeOrder(p, q) ==
    \A a, b \in ItemIds :
        (PosIn(p, a) # 0 /\ PosIn(p, b) # 0 /\ PosIn(q, a) # 0 /\ PosIn(q, b) # 0)
        => (PosIn(p, a) < PosIn(p, b) <=> PosIn(q, a) < PosIn(q, b))

\* C16: the items appended to one thread, also by concurrent callers that
\* stamp the same created_at, are listed in one stable order: two reads of
\* the thread in the same direction put every two items they both return in
\* the same relative order, whatever the page boundaries.
C16_ListOrderIsStable ==
    [][(/\ ret.op = "load_thread_items" /\ ret'.op = "load_thread_items"
        /\ ~ret.failed /\ ~ret'.failed
        /\ ret.key = ret'.key /\ ret.order = ret'.order)
       => SameRelativeOrder(ret.page, ret'.page)]_vars

\* the last two calls were the same list call with the same arguments
SameListCall ==
    /\ ret.op \in {"load_thread_items", "load_threads"} /\ ret'.op = ret.op
    /\ ret'.key = ret.key /\ ret'.after = ret.after
    /\ ret'.limit = ret.limit /\ ret'.order = ret.order

\* C18: load_thread_items, load_item and load_threads change nothing in the
\* store, and the same list call issued again with the same cursor while
\* the store is unchanged returns the same page.
C18_ReadsAreRepeatable ==
    [][/\ (ret'.op \in {"load_thread_items", "load_item", "load_threads"})
            => (dbvars' = dbvars /\ memvars' = memvars)
       /\ SameListCall => ret'.page = ret.page]_vars

\* C19: a load_threads whose context carries a user id returns only threads
\* of that user: a thread created by the save_thread of another user is not
\* in the page that the next load_threads returns to this user.
C19_ListHoldsOwnThreadsOnly ==
    [][(/\ ret.op = "save_thread" /\ ~ret.existed /\ ret.user_id \in Users
        /\ ret'.op = "load_threads" /\ ret'.key \in Users
        /\ ret'.key # ret.user_id)
       => \A k \in 1..Len(ret'.page.data) : ret'.page.data[k].id # ret.thread.id]_vars

\* C17: the items appended to a thread through add_thread_item have
\* non-decreasing created_at in the order they were inserted, also when
\* several handlers stamp and append their items concurrently.
C17_CreatedAtFollowsInsertionOrder ==
    \A i, j \in 1..Len(insertions) :
        (i < j /\ insertions[i].thread_id = insertions[j].thread_id)
        => fromisoformat(insertions[i].created_at) <= fromisoformat(insertions[j].created_at)

\* the implied probability of American odds as a percentage, in thousandths
ImpliedPercent(odds) ==
    IF odds > 0 THEN (100 * 100000) \div (odds + 100)
    ELSE (Abs(odds) * 100000) \div (Abs(odds) + 100)

\* C20: analyze_value reports edge = historical hit rate - implied
\* probability with both on the percentage scale, to the tenth of a point
\* it prints; a hit rate of 58.2% at odds -110 (implied 52.4%) gives an
\* edge near +5.8 and the tier SOLID.
C20_EdgeOnOneScale ==
    (ret.op = "analyze_value" /\ ret.raised = None)
    => /\ Abs(ret.result.edge
              - format_1f(ret.result.historical_rate * 100 - ImpliedPercent(ret.odds))) <= 1
       /\ (ret.odds = -110 /\ ret.result.historical_rate = 582)
              => ret.result.confidence = "SOLID"

---------------------------------------------------------------------------
(* Properties of the odds mathematics and the parlay quotes *)

\* n / m rounded to the nearest integer, for n >= 0 and m > 0
Round(n, m) == (2 * n + m) \div (2 * m)

\* decimalToAmerican of decimal odds d > 1.0: round((d - 1) * 100) from 2.0
\* on, round(-100 / (d - 1)) below
decimalToAmerican(d) ==
    IF d >= 2000 THEN Round(d - 1000, 10) ELSE -Round(100000, d - 1000)

\* an odds value that stands for American odds: a number that is not zero
ValidOdds(odds) == odds.kind \in {"int", "str"} /\ odds.valid /\ odds.digits # 0

\* the last call built a parlay quote from its legs
IsQuote == ret.op \in {"create_parlay_builder_widget", "build_parlay"} /\ ret.raised = None

\* C21: the combined American odds a parlay reports are decimalToAmerican
\* of its total decimal odds; for one leg they reproduce the leg's odds
\* within rounding, also for negative odds.
C21_CombinedOddsAreDecimalToAmerican ==
    (/\ IsQuote
     /\ Len(ret.legs) >= 1
     /\ \A k \in 1..Len(ret.legs) : ValidOdds(ret.legs[k]))
    => Abs(ret.shown_odds - decimalToAmerican(ret.total_odds)) <= 1

\* C22: an odds value that is zero or is no number is rejected by the odds
\* conversion and by analyze_value: the call raises, it returns no decimal
\* odds and no analysis made from a default.
C22_InvalidOddsAreRejected ==
    /\ (ret.op = "american_to_decimal" /\ ~ValidOdds(ret.odds)) => ret.raised # None
    /\ (ret.op = "analyze_value" /\ ~ValidOdds(ret.bet.odds)) => ret.raised # None

\* americanToDecimal of American odds o # 0, in thousandths
americanToDecimal(o) ==
    IF o > 0 THEN o * 10 + 1000 ELSE 100000 \div Abs(o) + 1000

\* the product of the decimal odds of the first k legs
RECURSIVE ProductOfLegs(_, _)
ProductOfLegs(legs, k) ==
    IF k = 0 THEN 1000
    ELSE (ProductOfLegs(legs, k - 1) * americanToDecimal(int_odds(legs[k]))) \div 1000

\* the last call showed a quote for the legs in ret.legs, all with valid odds
ShowsQuote ==
    /\ \/ IsQuote
       \/ ret.op = "parlay_builder" /\ ret.quoted
    /\ \A k \in 1..Len(ret.legs) : ValidOdds(ret.legs[k])

\* C23: the quote a parlay widget shows is computed from the legs and the
\* stake it is called with: the payout is the stake times the product of the
\* decimal odds of the current legs and the total odds shown are the profit
\* per 100 of that product, never a constant or a value the caller passed.
C23_QuoteIsRecomputedFromLegs ==
    ShowsQuote
    => LET product == ProductOfLegs(ret.legs, Len(ret.legs))
       IN  /\ ret.payout = ret.stake * product
           /\ Abs(ret.shown_odds - (product - 1000) \div 10) <= 1

\* C24: a parlay of one leg has the decimal odds of that leg as its total
\* and stake times them as its payout; a parlay of no legs has total 1.0,
\* its stake as payout and profit 0.
C24_OneLegAndNoLegParlay ==
    IsQuote
    => /\ (Len(ret.legs) = 1 /\ ValidOdds(ret.legs[1]))
              => /\ ret.total_odds = americanToDecimal(int_odds(ret.legs[1]))
                 /\ ret.payout = ret.stake * ret.total_odds
       /\ Len(ret.legs) = 0
              => /\ ret.total_odds = 1000
                 /\ ret.payout = ret.stake * 1000
                 /\ ret.profit = 0

\* a quote for the single leg -150 at a stake of 100: decimal odds 1.666,
\* payout 166.60
C24_Witness ==
    /\ IsQuote
    /\ ret.legs = <<IntOdds(-150)>> /\ ret.stake = 100
    /\ ret.total_odds = 1666 /\ ret.payout = 166600

\* the last two calls were analyses that computed an implied probability
\* from odds that are not zero
TwoImpliedProbabilities ==
    /\ ret.op = "analyze_value" /\ ret.raised = None /\ ret.odds # 0
    /\ ret'.op = "analyze_value" /\ ret'.raised = None /\ ret'.odds # 0

\* C25 as stated: the implied probability of American odds o # 0 is
\* strictly between 0 and 1, and o1 <= o2 implies
\* impliedProbability(o1) >= impliedProbability(o2) for all such odds, also
\* across the sign change and for |o| < 100.
C25_MonotoneForAllOdds ==
    [][TwoImpliedProbabilities
       => /\ 0 < ret'.implied_prob /\ ret'.implied_prob < 1000
          /\ ret.odds <= ret'.odds => ret.implied_prob >= ret'.implied_prob]_vars

\* C25, amended: the implied probability of American odds o # 0 is
\* strictly between 0 and 1; o1 <= o2 implies impliedProbability(o1) >=
\* impliedProbability(o2) when o1 and o2 have the same sign, and across the
\* sign change when both |o1| >= 100 and |o2| >= 100.
C25_MonotoneWithinSignAndFrom100 ==
    [][TwoImpliedProbabilities
       => /\ 0 < ret'.implied_prob /\ ret'.implied_prob < 1000
          /\ (/\ ret.odds <= ret'.odds
              /\ \/ (ret.odds > 0) = (ret'.odds > 0)
                 \/ Abs(ret.odds) >= 100 /\ Abs(ret'.odds) >= 100)
             => ret.implied_prob >= ret'.implied_prob]_vars

\* an analysis at the odds -110: implied probability 0.523
C25_Witness ==
    /\ ret.op = "analyze_value" /\ ret.raised = None
    /\ ret.odds = -110 /\ ret.implied_prob = 523

\* C26: the Kelly stake analyze_value computes is never negative and never
\* above the cap of 25 percent, for every edge and every implied
\* probability strictly between 0 and 1.
C26_KellyStakeWithinCap ==
    /\ (/\ ret.op = "kelly_stake"
        /\ 0 < ret.implied_prob /\ ret.implied_prob < 1000)
       => /\ ret.raised = None
          /\ 0 <= ret.kelly_percentage /\ ret.kelly_percentage <= 25000
    /\ (ret.op = "analyze_value" /\ ret.tool = "parleyapp_tools" /\ ret.raised = None)
       => (0 <= ret.result.kelly_stake /\ ret.result.kelly_stake <= 250)

\* an edge of 60 at implied probability 0.1: the raw stake is far above the
\* cap and the stake is 25 percent
C26_Witness ==
    /\ ret.op = "kelly_stake" /\ ret.edge = 60000 /\ ret.implied_prob = 100
    /\ ret.raised = None /\ ret.kelly_percentage = 25000

\* C27: the Kelly stake computation rejects an implied probability of 1
\* with a validation error: it neither divides by zero nor returns a stake.
C27_KellyRejectsProbabilityOne ==
    (ret.op = "kelly_stake" /\ ret.implied_prob = 1000)
    => ret.raised \notin {None, "ZeroDivisionError"}

\* the tiers in their order: none, slight lean, decent, solid, high, very
\* high, maximum
TierRank(tier) ==
    IF tier \in {"NO VALUE", "LOW"} THEN 0
    ELSE IF tier = "SLIGHT LEAN" THEN 1
    ELSE IF tier = "DECENT" THEN 2
    ELSE IF tier = "SOLID" THEN 3
    ELSE IF tier = "HIGH" THEN 4
    ELSE IF tier = "VERY HIGH" THEN 5
    ELSE 6

Breakpoints == {1000, 3000, 5000, 7000, 10000, 15000}

\* C28: the confidence tier is a monotone step function of the edge: of two
\* edges the larger has no lower tier, a higher tier when one of the
\* breakpoints 1, 3, 5, 7, 10, 15 lies between them and the same tier
\* when none does.
C28_TierIsMonotoneStepFunction ==
    [][(/\ ret.op = "calculate_confidence" /\ ret'.op = "calculate_confidence"
        /\ ret.tool = ret'.tool
        /\ ret.edge <= ret'.edge)
       => LET crossed == \E b \in Breakpoints : ret.edge < b /\ b <= ret'.edge
          IN  /\ TierRank(ret.result) <= TierRank(ret'.result)
              /\ crossed => TierRank(ret.result) < TierRank(ret'.result)
              /\ ~crossed => TierRank(ret.result) = TierRank(ret'.result)]_vars

-----------------------------------------------------------------------------
(* Properties of ownership and of the submit_parlay handler *)

\* C29: a thread saved by user A stays owned by A, and so stays listed by
\* load_threads for A, after every later call: a save_thread on the same
\* thread id under another user's context or under a context without a
\* user id does not change the owner of the row.
C29_ThreadStaysWithItsOwner ==
    [][\A row \in chatkit_threads :
           row.profile_id \in Users
           => \E kept \in chatkit_threads' :
                  kept.id = row.id /\ kept.profile_id = row.profile_id]_vars

\* C30: every submit_parlay whose confirmation widget event was emitted is
\* eventually followed by its hidden context item being appended to the
\* same thread through add_thread_item; the table of items changes only by
\* such an append, of exactly one row, after the event was emitted, and
\* remove_leg and add_legs append nothing.
C30_SubmitParlayAppendsHiddenItem ==
    /\ [][chatkit_thread_items' # chatkit_thread_items
          => \E r \in Requests :
                 /\ handler[r].pc = "stamped" /\ handler'[r].pc = "idle"
                 /\ handler[r].type = "submit_parlay"
                 /\ \E row \in chatkit_thread_items' :
                        /\ row.id = handler[r].hidden.id
                        /\ row.thread_id = handler[r].thread_id
                        /\ chatkit_thread_items' = chatkit_thread_items \cup {row}
                        /\ row \notin chatkit_thread_items]_vars
    /\ \A r \in Requests : handler[r].pc = "yielded" ~> handler[r].pc = "stamped"
    /\ \A r \in Requests, i \in ItemIds, t \in ThreadIds :
           (handler[r].pc = "stamped" /\ handler[r].hidden.id = i
               /\ handler[r].thread_id = t)
           ~> (\E row \in chatkit_thread_items : row.id = i /\ row.thread_id = t)


=============================================================================
